---- MODULE Spec2Model ----
(***************************************************************************)
(* Model of vorarbeiter (src/src/lib.rs): the Supervisor, its Drop, and    *)
(* shutdown_process, together with the operating system's view of each     *)
(* child process (running / exited but unreaped / reaped), the status      *)
(* cached in a std::process::Child handle, and a clock.                    *)
(*                                                                         *)
(* Durations are in milliseconds.  Time advances in steps of TickMillis.        *)
(***************************************************************************)
EXTENDS Integers, Sequences, FiniteSets, TLC

\* ---------------------------------------------------------------- bounds
MaxChildren == 2
MaxKillTicks == 2
MaxPollTicks == 2
MaxJitter == 2
\* Children of a supervisor built by Supervisor::default(), whose ten-second
\* timeout makes every teardown a hundred polls long
MaxDefaultChildren == 1

\* ------------------------------------------------------ program constants
\* time::Duration::from_millis(100) in Supervisor::new
PollIntervalMillis == 100

\* time::Duration::from_secs(10) in Supervisor::default
DefaultKillTimeoutSecs == 10

DefaultKillTimeoutMillis == DefaultKillTimeoutSecs * 1000

\* Granularity of the model's clock: half of the Supervisor's poll interval.
TickMillis == PollIntervalMillis \div 2

ChildIds == 1..MaxChildren
KillTimeouts == {k * TickMillis : k \in 0..MaxKillTicks}
PollIntervals == {k * TickMillis : k \in 1..MaxPollTicks}
\* No run of shutdown_process lasts this long (checked as ClockCapNotReached).
MaxElapsed ==
    DefaultKillTimeoutMillis
    + (MaxKillTicks + MaxPollTicks + 2 * MaxJitter + 2) * TickMillis

VARIABLES
    children,       \* Supervisor.children: handles in registration order
    kill_timeout,   \* Supervisor.kill_timeout
    poll_interval,  \* Supervisor.poll_interval
    phase,          \* "host" | "drop" | "call" | "done" | "flag" | "terminated"
    todo,           \* what is left of children.iter_mut().rev() in drop
    order,          \* history: children in the order shutdown_process was invoked
    cur,            \* the child of the current (or last) shutdown_process call
    pc,             \* position inside shutdown_process
    kt,             \* argument kill_timeout of the current call
    pi,             \* argument poll_interval of the current call
    elapsed,        \* Instant::now() - start
    wake,           \* end of the current thread::sleep, on the elapsed scale
    slack,          \* ticks of delay beyond the requested sleeps in this call
    proc,           \* OS state of each child process
    status,         \* the status each process terminated with
    handle,         \* exit status cached in each process::Child handle
    killPending,    \* SIGKILL delivered to a running process, not yet effective
    reused,         \* the pid of a reaped child has been given to another process
    reapedBefore,   \* history: the host had waited for the child before handing it over
    touched,        \* history: some signal/poll/wait was made for the child
    result,         \* history: what shutdown_process returned for each child
    trace,          \* history: the OS operations of the current (or last) call
    setup,          \* setup_term_flag: "none" | "running" | "ok" | "err"
    regIdx,         \* setup_term_flag: index of the next signal to register
    handlers,       \* the signals whose installed handler sets the flag
    term,           \* the value of the AtomicBool allocated by setup_term_flag
    seen,           \* the host's polling loop has read true from the flag
    received,       \* history: a signal arrived whose handler was installed
    built           \* history: the constructor call that made the supervisor

vars == << children, kill_timeout, poll_interval, phase, todo, order, cur, pc,
           kt, pi, elapsed, wake, slack, proc, status, handle, killPending,
           reused, reapedBefore, touched, result, trace, setup, regIdx,
           handlers, term, seen, received, built >>

flagVars == << setup, regIdx, handlers, term, seen, received >>
supVars == << children, kill_timeout, poll_interval, built >>
callArgs == << cur, kt, pi >>
osVars == << proc, status, handle, killPending, reused, reapedBefore >>

\* --------------------------------------------------------------- helpers
\* An entry of the trace; signals and exits carry the time they happen at.
Event(op, out) ==
    [op |-> op, out |-> out,
     at |-> IF op \in {"SIGTERM", "SIGKILL", "exit"} THEN elapsed ELSE 0]

Log(op, out) == trace' = Append(trace, Event(op, out))

Touch == touched' = [touched EXCEPT ![cur] = TRUE]

RECURSIVE Reverse(_)
Reverse(s) == IF s = << >> THEN << >> ELSE Append(Reverse(Tail(s)), Head(s))

\* Mutant of RevIter: the iterator is not reversed.
RevIterForward(s) == s

\* children.iter_mut().rev(): the handles, last registered first.
RevIter(s) == Reverse(s)

\* Mutant of AfterShutdown: an error ends the loop (as `?` or a break would).
AfterShutdownStopOnErr(r, rest) == IF r = "Err" THEN << >> ELSE rest

\* `let _ = shutdown_process(..)`: the result is dropped, the loop goes on
\* with what is left of the iterator.
AfterShutdown(r, rest) == rest

\* Mutant of LoopCond: `<=` for `<`.
LoopCondInclusive(el, timeout) == el <= timeout

\* Mutant of LoopCond: the loop gives up one tick early.
LoopCondEarly(el, timeout) == el + TickMillis < timeout

\* The loop condition `Instant::now() - start < kill_timeout`.
LoopCond(el, timeout) == el < timeout

\* Mutant of AfterLoop: at the timeout the call waits without sending SIGKILL.
AfterLoopNoKill(cond) == IF cond THEN "try_wait" ELSE "wait"

\* Where the `while` goes: into its body, or past it to the SIGKILL step.
AfterLoop(cond) == IF cond THEN "try_wait" ELSE "sigkill"

\* Mutant of SleepFor: the thread sleeps for the timeout.
SleepForTimeout(interval, timeout) == timeout

\* `thread::sleep(poll_interval)`: how long the thread asks to sleep.
SleepFor(interval, timeout) == interval

\* Mutant of WaitResult: whatever is waited for after SIGKILL is reported as
\* killed.
WaitResultAssumeKilled(out, st) == IF out = "some" THEN "killed" ELSE "Err"

\* `Ok(child.wait()?)`: the status the handle collected, or the error.
WaitResult(out, st) == IF out = "some" THEN st ELSE "Err"

\* Mutant of AfterSigterm: the result of kill is ignored.
AfterSigtermIgnoreErr(ok) == "loop"

\* `signal::kill(pid, SIGTERM).map_err(..)?`: where control goes.
AfterSigterm(ok) == IF ok THEN "loop" ELSE "return"

\* Mutant of AfterTryWait: the status a poll returns is dropped and the loop
\* goes on.
AfterTryWaitNoReturn(out) == IF out = "err" THEN "return" ELSE "sleep"

\* Mutant of AfterTryWait: an observed exit leaves the loop (`break`) and
\* falls through to the SIGKILL step.
AfterTryWaitBreak(out) ==
    IF out = "none" THEN "sleep" ELSE IF out = "some" THEN "sigkill" ELSE "return"

\* Mutant of AfterTryWait: a failed poll is taken for "still running".
AfterTryWaitRetry(out) == IF out = "some" THEN "return" ELSE "sleep"

\* `child.try_wait()?`: an error returns it, Some(status) returns Ok, None sleeps.
AfterTryWait(out) == IF out = "none" THEN "sleep" ELSE "return"

\* Mutant of AfterSigkill: the result of kill is ignored.
AfterSigkillIgnoreErr(ok) == "wait"

\* `signal::kill(pid, SIGKILL).map_err(..)?`: where control goes.
AfterSigkill(ok) == IF ok THEN "wait" ELSE "return"

\* What kill(2) on the pid read from the handle can do.  A live or unreaped
\* process is signalled (or the request is refused, EPERM); the pid of a
\* reaped process no longer exists (ESRCH) unless it was given to another
\* process, which then receives the signal.
KillOutcomes(c) ==
    IF proc[c] \in {"running", "zombie"} THEN {"sent", "err"}
    ELSE IF reused[c] THEN {"stray", "err"}
    ELSE {"err"}


\* What a non-blocking waitpid through the handle can return.  A handle that
\* already holds a status returns it without a system call.
TryWaitOutcomes(c) ==
    IF handle[c] # "none" THEN {"some"}
    ELSE IF proc[c] = "zombie" THEN {"some", "err"}
    ELSE {"none", "err"}

\* What the blocking wait can return now; on a running process it blocks.
WaitOutcomes(c) ==
    IF handle[c] # "none" THEN {"some"}
    ELSE IF proc[c] = "zombie" THEN {"some", "err"}
    ELSE {"err"}

\* Mutant of Reap: the status is read but the process is left unreaped
\* (as waitid with WNOWAIT does).
ReapNoWait(c) ==
    /\ handle' = [handle EXCEPT ![c] = status[c]]
    /\ proc' = proc

\* The handle collects the status of an exited process and reaps it.
Reap(c) ==
    IF handle[c] # "none" THEN UNCHANGED << proc, handle >>
    ELSE /\ proc' = [proc EXCEPT ![c] = "reaped"]
         /\ handle' = [handle EXCEPT ![c] = status[c]]

\* A process handed over by the host: running, or already waited for.
Spawned(c, waited) ==
    /\ proc' = [proc EXCEPT ![c] = IF waited THEN "reaped" ELSE "running"]
    /\ status' = [status EXCEPT ![c] = IF waited THEN "exited" ELSE "none"]
    /\ handle' = [handle EXCEPT ![c] = IF waited THEN "exited" ELSE "none"]
    /\ reapedBefore' = [reapedBefore EXCEPT ![c] = waited]

\* shutdown_process returns r to its caller: the drop loop or the host.
Return(r) ==
    /\ result' = [result EXCEPT ![cur] = r]
    /\ pc' = "idle"
    /\ phase' = IF phase = "call" THEN "done" ELSE phase
    /\ todo' = AfterShutdown(r, todo)

\* ------------------------------------------------------------------ Init
\* Mutant of New: the poll interval is taken from the timeout.
NewPollFromTimeout(timeout) ==
    [children |-> << >>, kill_timeout |-> timeout, poll_interval |-> timeout]

\* Supervisor::new(kill_timeout)
New(timeout) ==
    [children |-> << >>,
     kill_timeout |-> timeout,
     poll_interval |-> PollIntervalMillis]

\* Supervisor::default()
Default == New(DefaultKillTimeoutMillis)

\* The state after Supervisor::new(kill_timeout) or Supervisor::default().
Init ==
    /\ \E call \in {[by |-> "default", arg |-> 0]}
                    \cup {[by |-> "new", arg |-> t] : t \in KillTimeouts} :
        LET sup == IF call.by = "default" THEN Default ELSE New(call.arg) IN
        /\ children = sup.children
        /\ kill_timeout = sup.kill_timeout
        /\ poll_interval = sup.poll_interval
        /\ built = call
    /\ phase = "host"
    /\ todo = << >>
    /\ order = << >>
    /\ cur = 0
    /\ pc = "idle"
    /\ kt = 0
    /\ pi = 0
    /\ elapsed = 0
    /\ wake = 0
    /\ slack = 0
    /\ proc = [c \in ChildIds |-> "unspawned"]
    /\ status = [c \in ChildIds |-> "none"]
    /\ handle = [c \in ChildIds |-> "none"]
    /\ killPending = [c \in ChildIds |-> FALSE]
    /\ reused = [c \in ChildIds |-> FALSE]
    /\ reapedBefore = [c \in ChildIds |-> FALSE]
    /\ touched = [c \in ChildIds |-> FALSE]
    /\ result = [c \in ChildIds |-> "none"]
    /\ trace = << >>
    /\ setup = "none"
    /\ regIdx = 1
    /\ handlers = { }
    /\ term = FALSE
    /\ seen = FALSE
    /\ received = FALSE

\* ------------------------------------------------------------ Supervisor
\* Supervisor::add_child: push the handle.
AddChild(waited) ==
    /\ phase = "host"
    /\ Len(children) < MaxChildren
    /\ kill_timeout = DefaultKillTimeoutMillis
        => Len(children) < MaxDefaultChildren
    /\ LET c == Len(children) + 1 IN
        /\ children' = Append(children, c)
        /\ Spawned(c, waited)
    /\ UNCHANGED << kill_timeout, poll_interval, built, phase, todo, order, cur,
                    pc, kt, pi, elapsed, wake, slack, killPending, reused,
                    touched, result, trace >>
    /\ UNCHANGED flagVars

\* Drop for Supervisor: the loop starts over the reversed children.
Drop ==
    /\ phase = "host"
    /\ phase' = "drop"
    /\ todo' = RevIter(children)
    /\ UNCHANGED << supVars, order, callArgs, pc, elapsed, wake, slack, osVars,
                    touched, result, trace >>
    /\ UNCHANGED flagVars

\* One iteration of the drop loop: call shutdown_process on the next child.
DropNext ==
    /\ phase = "drop"
    /\ pc = "idle"
    /\ todo # << >>
    /\ cur' = Head(todo)
    /\ todo' = Tail(todo)
    /\ kt' = kill_timeout
    /\ pi' = poll_interval
    /\ order' = Append(order, Head(todo))
    /\ pc' = "enter"
    /\ trace' = << >>
    /\ elapsed' = 0
    /\ wake' = 0
    /\ slack' = 0
    /\ UNCHANGED << supVars, phase, osVars, touched, result >>
    /\ UNCHANGED flagVars

\* The iterator is exhausted: drop returns.
DropEnd ==
    /\ phase = "drop"
    /\ pc = "idle"
    /\ todo = << >>
    /\ phase' = "done"
    /\ UNCHANGED << supVars, todo, order, callArgs, pc, elapsed, wake, slack,
                    osVars, touched, result, trace >>
    /\ UNCHANGED flagVars

\* The host calls the public function shutdown_process itself, on a child it
\* did not register, with a timeout and a poll interval of its choice.
CallShutdown(timeout, interval, waited) ==
    /\ phase = "host"
    /\ children = << >>
    /\ phase' = "call"
    /\ Spawned(1, waited)
    /\ cur' = 1
    /\ kt' = timeout
    /\ pi' = interval
    /\ order' = << 1 >>
    /\ pc' = "enter"
    /\ UNCHANGED << supVars, todo, elapsed, wake, slack, killPending, reused,
                    touched, result, trace >>
    /\ UNCHANGED flagVars

\* ------------------------------------------------------ shutdown_process
\* let start = Instant::now(); let pid = Pid::from_raw(child.id() as i32);
Enter ==
    /\ pc = "enter"
    /\ elapsed' = 0
    /\ pc' = "sigterm"
    /\ UNCHANGED << supVars, phase, todo, order, callArgs, wake, slack, osVars,
                    touched, result, trace >>
    /\ UNCHANGED flagVars

\* signal::kill(pid, Signal::SIGTERM).map_err(..)?
SigTerm ==
    /\ pc = "sigterm"
    /\ \E out \in KillOutcomes(cur) :
        /\ Log("SIGTERM", out)
        /\ Touch
        /\ IF AfterSigterm(out # "err") = "return"
           THEN Return("Err")
           ELSE pc' = "loop" /\ UNCHANGED << result, phase, todo >>
    /\ UNCHANGED << supVars, order, callArgs, elapsed, wake, slack, osVars >>
    /\ UNCHANGED flagVars

\* while Instant::now() - start < kill_timeout
Loop ==
    /\ pc = "loop"
    /\ pc' = AfterLoop(LoopCond(elapsed, kt))
    /\ UNCHANGED << supVars, phase, todo, order, callArgs, elapsed, wake, slack,
                    osVars, touched, result, trace >>
    /\ UNCHANGED flagVars

\* if let Some(exit_status) = child.try_wait()? { return Ok(exit_status); }
TryWait ==
    /\ pc = "try_wait"
    /\ \E out \in TryWaitOutcomes(cur) :
        /\ Log("try_wait", out)
        /\ Touch
        /\ IF out = "some" THEN Reap(cur) ELSE UNCHANGED << proc, handle >>
        /\ IF AfterTryWait(out) = "return"
           THEN Return(IF out = "some" THEN handle'[cur] ELSE "Err")
           ELSE pc' = AfterTryWait(out) /\ UNCHANGED << result, phase, todo >>
    /\ UNCHANGED << supVars, order, callArgs, elapsed, wake, slack, status,
                    killPending, reused, reapedBefore >>
    /\ UNCHANGED flagVars

\* thread::sleep(poll_interval): the thread is put to sleep ...
Sleep ==
    /\ pc = "sleep"
    /\ wake' = elapsed + SleepFor(pi, kt)
    /\ pc' = "sleeping"
    /\ Log("sleep", "ok")
    /\ UNCHANGED << supVars, phase, todo, order, callArgs, elapsed, slack, osVars,
                    touched, result >>
    /\ UNCHANGED flagVars

\* ... and runs again once at least poll_interval has passed.
Wake ==
    /\ pc = "sleeping"
    /\ elapsed >= wake
    /\ pc' = "loop"
    /\ wake' = 0
    /\ UNCHANGED << supVars, phase, todo, order, callArgs, elapsed, slack, osVars,
                    touched, result, trace >>
    /\ UNCHANGED flagVars

\* signal::kill(pid, Signal::SIGKILL).map_err(..)?
SigKill ==
    /\ pc = "sigkill"
    /\ \E out \in KillOutcomes(cur) :
        /\ Log("SIGKILL", out)
        /\ Touch
        /\ killPending' = [killPending EXCEPT
                             ![cur] = @ \/ (out = "sent" /\ proc[cur] = "running")]
        /\ IF AfterSigkill(out # "err") = "return"
           THEN Return("Err")
           ELSE pc' = "wait" /\ UNCHANGED << result, phase, todo >>
    /\ UNCHANGED << supVars, order, callArgs, elapsed, wake, slack, proc, status,
                    handle, reused, reapedBefore >>
    /\ UNCHANGED flagVars

\* Ok(child.wait()?)
Wait ==
    /\ pc = "wait"
    /\ \E out \in WaitOutcomes(cur) :
        /\ Log("wait", out)
        /\ Touch
        /\ IF out = "some" THEN Reap(cur) ELSE UNCHANGED << proc, handle >>
        /\ Return(WaitResult(out, handle'[cur]))
    /\ UNCHANGED << supVars, order, callArgs, elapsed, wake, slack, status,
                    killPending, reused, reapedBefore >>
    /\ UNCHANGED flagVars

\* ----------------------------------------------------------- environment
\* Time passes during a call.  While the thread sleeps, time up to the wake-up
\* instant is the sleep itself.  Any other tick is delay, of which a call sees
\* at most MaxJitter: the thread wakes up late, the SIGTERM request is slow, or
\* the blocking wait takes its time.
Tick ==
    /\ \/ pc \in {"sigterm", "sleeping"}
       \/ pc = "wait" /\ proc[cur] = "running"
    /\ elapsed < MaxElapsed
    /\ elapsed' = elapsed + TickMillis
    /\ IF pc = "sleeping" /\ elapsed < wake
       THEN slack' = slack
       ELSE slack < MaxJitter /\ slack' = slack + 1
    /\ UNCHANGED << supVars, phase, todo, order, callArgs, pc, wake, osVars,
                    touched, result, trace >>
    /\ UNCHANGED flagVars

\* A running child exits on its own.  (A child is followed until
\* shutdown_process has returned for it.)
ChildExits(c) ==
    /\ result[c] = "none"
    /\ proc[c] = "running"
    /\ ~killPending[c]
    /\ proc' = [proc EXCEPT ![c] = "zombie"]
    /\ status' = [status EXCEPT ![c] = "exited"]
    /\ IF c = cur /\ pc \notin {"idle", "enter"}
       THEN Log("exit", "own")
       ELSE trace' = trace
    /\ UNCHANGED << supVars, phase, todo, order, callArgs, pc, elapsed, wake,
                    slack, handle, killPending, reused, reapedBefore, touched,
                    result >>
    /\ UNCHANGED flagVars

\* SIGKILL ends the running process it was delivered to.
KillTakesEffect(c) ==
    /\ result[c] = "none"
    /\ proc[c] = "running"
    /\ killPending[c]
    /\ proc' = [proc EXCEPT ![c] = "zombie"]
    /\ status' = [status EXCEPT ![c] = "killed"]
    /\ killPending' = [killPending EXCEPT ![c] = FALSE]
    /\ UNCHANGED << supVars, phase, todo, order, callArgs, pc, elapsed, wake,
                    slack, handle, reused, reapedBefore, touched, result, trace >>
    /\ UNCHANGED flagVars

\* The operating system gives the pid of a reaped child to a new process.
\* (After shutdown_process has returned the pid is never used again.)
PidReuse(c) ==
    /\ proc[c] = "reaped"
    /\ ~reused[c]
    /\ result[c] = "none"
    /\ reused' = [reused EXCEPT ![c] = TRUE]
    /\ UNCHANGED << supVars, phase, todo, order, callArgs, pc, elapsed, wake,
                    slack, proc, status, handle, killPending, reapedBefore, touched,
                    result, trace >>
    /\ UNCHANGED flagVars

\* ------------------------------------------------------- setup_term_flag
\* setup_term_flag shares no state with the Supervisor; the model follows a
\* host that calls it at start-up and then runs its polling loop.

\* Everything but the phase and the flag's own state.
shutdownVars == << supVars, todo, order, callArgs, pc, elapsed, wake, slack,
                   osVars, touched, result, trace >>

\* The array the loop of setup_term_flag iterates over.
TermSignals == << "SIGINT", "SIGTERM", "SIGQUIT" >>

\* Mutant of AfterRegister: a failed registration is skipped.
AfterRegisterIgnoreErr(ok) == "next"

\* `signal_hook::flag::register(signal, term.clone())?`: where control goes.
AfterRegister(ok) == IF ok THEN "next" ELSE "return"

\* Mutant of HandlerEffect: the handler flips the flag.
HandlerToggles(flag) == ~flag

\* What the handler installed by flag::register does to the flag: it stores
\* true.
HandlerEffect(flag) == TRUE

\* let term = Arc::new(AtomicBool::new(false)); the loop is entered.
SetupTermFlag ==
    /\ phase = "host"
    /\ children = << >>
    /\ phase' = "flag"
    /\ setup' = "running"
    /\ term' = FALSE
    /\ regIdx' = 1
    /\ UNCHANGED << shutdownVars, handlers, seen, received >>

\* One iteration of the loop: register the next signal, `?` on its result.
\* A handler that was installed stays installed.
Register ==
    /\ phase = "flag"
    /\ setup = "running"
    /\ regIdx <= Len(TermSignals)
    /\ \E ok \in BOOLEAN :
        /\ handlers' = IF ok THEN handlers \cup {TermSignals[regIdx]} ELSE handlers
        /\ IF AfterRegister(ok) = "return"
           THEN setup' = "err" /\ regIdx' = regIdx
           ELSE setup' = setup /\ regIdx' = regIdx + 1
    /\ UNCHANGED << shutdownVars, phase, term, seen, received >>

\* Ok(term)
SetupReturn ==
    /\ phase = "flag"
    /\ setup = "running"
    /\ regIdx > Len(TermSignals)
    /\ setup' = "ok"
    /\ UNCHANGED << shutdownVars, phase, regIdx, handlers, term, seen, received >>

\* The host's loop `while !term.load(Ordering::Relaxed)` reads the flag.
PollFlag ==
    /\ phase = "flag"
    /\ setup = "ok"
    /\ ~seen
    /\ seen' = term
    /\ UNCHANGED << shutdownVars, phase, setup, regIdx, handlers, term, received >>

\* The process receives one of the three signals: an installed handler runs,
\* otherwise the default action of the signal ends the process.
SignalArrives(sig) ==
    /\ phase = "flag"
    /\ IF sig \in handlers
       THEN /\ term' = HandlerEffect(term)
            /\ received' = TRUE
            /\ phase' = phase
       ELSE /\ phase' = "terminated"
            /\ UNCHANGED << term, received >>
    /\ UNCHANGED << shutdownVars, setup, regIdx, handlers, seen >>

\* ------------------------------------------------------- specifications
Step ==
    \/ DropNext
    \/ DropEnd
    \/ Enter
    \/ SigTerm
    \/ Loop
    \/ TryWait
    \/ Sleep
    \/ Wake
    \/ SigKill
    \/ Wait

Host ==
    \/ \E rb \in BOOLEAN : AddChild(rb)
    \/ Drop
    \/ \E t \in KillTimeouts, i \in PollIntervals, rb \in BOOLEAN :
           CallShutdown(t, i, rb)

Flag ==
    \/ SetupTermFlag
    \/ Register
    \/ SetupReturn
    \/ PollFlag

Env ==
    \/ \E sig \in {"SIGINT", "SIGTERM", "SIGQUIT"} : SignalArrives(sig)
    \/ Tick
    \/ \E c \in ChildIds : ChildExits(c)
    \/ \E c \in ChildIds : KillTakesEffect(c)
    \/ \E c \in ChildIds : PidReuse(c)

Next == Host \/ Step \/ Flag \/ Env

Spec == Init /\ [][Next]_vars

\* The thread that runs drop keeps running, a sleep ends, a process that
\* received SIGKILL exits, and the host's polling loop keeps reading the flag.
SleepTick == Tick /\ pc = "sleeping" /\ elapsed < wake

\* A step of the thread other than a blocking wait that fails: every other
\* step returns at once, but the thread cannot count on a failure to get it
\* out of the blocking wait.
Progress == Step /\ ~(pc = "wait" /\ result'[cur] = "Err")

FairSpec ==
    /\ Spec
    /\ WF_vars(Progress)
    /\ WF_vars(SleepTick)
    /\ \A c \in ChildIds : WF_vars(KillTakesEffect(c))
    /\ WF_vars(PollFlag)

TypeOK ==
    /\ phase \in {"host", "drop", "call", "done", "flag", "terminated"}
    /\ setup \in {"none", "running", "ok", "err"}
    /\ handlers \subseteq {"SIGINT", "SIGTERM", "SIGQUIT"}
    /\ term \in BOOLEAN /\ seen \in BOOLEAN
    /\ pc \in {"idle", "enter", "sigterm", "loop", "try_wait", "sleep",
               "sleeping", "sigkill", "wait"}
    /\ \A c \in ChildIds :
        /\ proc[c] \in {"unspawned", "running", "zombie", "reaped"}
        /\ status[c] \in {"none", "exited", "killed"}
        /\ handle[c] \in {"none", "exited", "killed"}
        /\ result[c] \in {"none", "Err", "exited", "killed"}
        /\ (proc[c] = "reaped") = (handle[c] # "none")

ClockCapNotReached == elapsed < MaxElapsed

\* ------------------------------------------------------- claim vocabulary
Idx == DOMAIN trace

\* No system call of the current call has failed.
NoErr == \A i \in Idx : trace[i].out # "err"

\* The current call has returned.
Returned == cur # 0 /\ pc = "idle"

\* The child of the current call was alive at the call and has not exited on
\* its own: in this run it is a process that ignores SIGTERM.
IgnoresSigterm == cur # 0 /\ ~reapedBefore[cur] /\ status[cur] # "exited"

Registered == {children[i] : i \in DOMAIN children}

\* C1: a child that exits on its own within kill_timeout after SIGTERM is
\* never sent SIGKILL, and the call returns Ok with its own exit status.
\* Stated for the most favourable case: an exit strictly before the timeout,
\* sleeps of exactly poll_interval, no failing system call.
C1_TimelyExitNeverKilled ==
    ( /\ kt > 0
      /\ slack = 0
      /\ NoErr
      /\ \E i, j \in Idx :
            /\ i < j
            /\ trace[i].op = "SIGTERM" /\ trace[i].out = "sent"
            /\ trace[j].op = "exit"
            /\ trace[j].at - trace[i].at < kt )
    => /\ \A k \in Idx : trace[k].op # "SIGKILL"
       /\ Returned => result[cur] = "exited"

\* C2 as stated: for a process that ignores SIGTERM, SIGKILL is sent no
\* earlier than kill_timeout and no later than kill_timeout + poll_interval
\* after the start, and the call returns Ok with the killed status.
C2_KillWithinPollInterval ==
    (IgnoresSigterm /\ NoErr)
    => /\ \A k \in Idx : trace[k].op = "SIGKILL"
            => kt <= trace[k].at /\ trace[k].at <= kt + pi
       /\ Returned => result[cur] = "killed"

\* C2 amended, as a state predicate: SIGKILL is sent no earlier than
\* kill_timeout after the start, and later than kill_timeout + poll_interval
\* by no more than the delay the call has met beyond its sleeps; if no system
\* call failed the call returns Ok with the killed status.
C2_KillBounds ==
    (IgnoresSigterm /\ NoErr)
    => /\ \A k \in Idx : trace[k].op = "SIGKILL"
            => /\ kt <= trace[k].at
               /\ trace[k].at <= kt + pi + slack * TickMillis
               /\ kt > 0 => trace[k].at < kt + pi + slack * TickMillis
       /\ Returned => result[cur] = "killed"

\* C2 amended: the bounds above always hold, and every call that has started
\* eventually returns.
C2_KillAfterTimeout == []C2_KillBounds /\ ((pc # "idle") ~> (pc = "idle"))

\* C2 witness: a process that never exited on its own was sent SIGKILL after a
\* positive timeout, with exact sleeps, and the call returned the killed status.
C2_Witness ==
    /\ IgnoresSigterm /\ NoErr /\ Returned
    /\ kt = 2 * pi
    /\ slack = 0
    /\ result[cur] = "killed"
    /\ \E k \in Idx : trace[k].op = "SIGKILL" /\ trace[k].at = kt

\* C3: teardown calls shutdown_process on the children in reverse order of
\* registration, one after the other: no signal, poll or wait is made for a
\* child before the call for every later-registered child has returned.
C3_ReverseSequential ==
    children # << >> =>
        /\ Len(order) <= Len(children)
        /\ \A i \in DOMAIN order : order[i] = children[Len(children) + 1 - i]
        /\ \A i, j \in DOMAIN children :
              (i < j /\ (touched[children[i]] \/ cur = children[i]))
              => result[children[j]] # "none"
        /\ \A i \in DOMAIN order : i < Len(order) => result[order[i]] # "none"

\* C3 witness: teardown of two children is over, the second one first.
C3_Witness ==
    /\ phase = "done"
    /\ children = << 1, 2 >>
    /\ order = << 2, 1 >>
    /\ touched[1] /\ touched[2]

\* C4: an error returned for a child does not end teardown: every
\* earlier-registered child is still to come or has been called, and when
\* teardown is over shutdown_process has returned for every child.
C4_ErrorIsolation ==
    /\ \A i, j \in DOMAIN children :
          (i < j /\ result[children[j]] = "Err")
          => \/ \E k \in DOMAIN todo : todo[k] = children[i]
             \/ \E k \in DOMAIN order : order[k] = children[i]
    /\ (phase = "done" /\ children # << >>)
       => \A c \in Registered : result[c] # "none"

\* C4 witness: the shutdown of the last child failed and the first child was
\* shut down all the same.
C4_Witness ==
    /\ phase = "done"
    /\ children = << 1, 2 >>
    /\ result[2] = "Err"
    /\ result[1] = "killed"

\* C5: SIGKILL is sent only after SIGTERM was sent with success earlier in
\* the same call, and reaches the child only if SIGTERM reached it.
C5_TermBeforeKill ==
    \A j \in Idx : trace[j].op = "SIGKILL"
        => \E i \in Idx :
              /\ i < j
              /\ trace[i].op = "SIGTERM"
              /\ trace[i].out # "err"
              /\ trace[j].out = "sent" => trace[i].out = "sent"

\* C5 witness: with a kill_timeout of 0, SIGKILL reached the child.
C5_Witness ==
    /\ kt = 0
    /\ cur # 0
    /\ \E j \in Idx : trace[j].op = "SIGKILL" /\ trace[j].out = "sent"

\* The system calls made by the current call, without what the child did.
Calls == SelectSeq(trace, LAMBDA e : e.op # "exit")

\* C6: with a kill_timeout of 0 the call makes no poll and no sleep: after
\* SIGTERM comes SIGKILL, then the blocking wait.
C6_ZeroTimeoutNoPoll ==
    (cur # 0 /\ kt = 0) =>
        /\ \A i \in Idx : trace[i].op \notin {"try_wait", "sleep"}
        /\ Len(Calls) <= 3
        /\ \A i \in DOMAIN Calls : Calls[i].op = << "SIGTERM", "SIGKILL", "wait" >>[i]

\* C6 witness: a call with a kill_timeout of 0 reached the blocking wait and
\* returned.
C6_Witness ==
    /\ kt = 0
    /\ Returned
    /\ Len(Calls) = 3
    /\ Calls[3].op = "wait"

\* C7: once the Supervisor is dropped, the drop eventually returns.
C7_TeardownCompletes == (phase = "drop") ~> (phase = "done")

\* C7 witness: teardown is over although one child was already gone, and the
\* other ignored SIGTERM and was killed.
C7_Witness ==
    /\ phase = "done"
    /\ children = << 1, 2 >>
    /\ reapedBefore[2] /\ result[2] = "Err"
    /\ status[1] = "killed" /\ result[1] = "killed"

\* C8 as stated: when teardown is over every registered child has exited and
\* has been reaped.
C8_AllReaped ==
    (phase = "done" /\ children # << >>)
    => \A c \in Registered : proc[c] = "reaped"

\* C8 amended: when teardown is over, shutdown_process has returned for every
\* registered child, and every child for which it returned Ok has exited and
\* been reaped, the handle holding the status returned.
C8_OkMeansReaped ==
    (phase = "done" /\ children # << >>)
    => \A c \in Registered :
          /\ result[c] # "none"
          /\ result[c] # "Err" => proc[c] = "reaped" /\ handle[c] = result[c]

\* C8 witness: teardown is over, one child was reaped with its status and
\* one, whose shutdown failed, is still running.
C8_Witness ==
    /\ phase = "done"
    /\ children = << 1, 2 >>
    /\ result[2] = "Err" /\ proc[2] = "running"
    /\ result[1] = "exited" /\ proc[1] = "reaped"

\* C9: a system call that fails is the last thing a call does: the call has
\* returned Err, nothing was retried and no later step ran.
C9_ErrorAborts ==
    \A i \in Idx : trace[i].out = "err"
        => /\ i = Len(trace)
           /\ pc = "idle"
           /\ result[cur] = "Err"

\* C9 witness: a poll failed after an earlier poll and a sleep.
C9_Witness ==
    /\ Returned
    /\ Len(Calls) = 4
    /\ Calls[4].op = "try_wait" /\ Calls[4].out = "err"

\* C10: a call on a handle whose process was waited for before the call
\* returns an error, never Ok.
C10_ReapedHandleErrors ==
    \A c \in ChildIds :
        (reapedBefore[c] /\ result[c] # "none") => result[c] = "Err"

TermSignalSet == {TermSignals[i] : i \in DOMAIN TermSignals}

\* C11 as stated: the flag is false when setup_term_flag returns it, is true
\* once one of the three signals was received, never goes back to false, and
\* a host that polls it after a signal eventually reads true.
C11_FalseWhenReturned ==
    /\ [][(setup = "running" /\ setup' = "ok") => ~term']_vars
    /\ [](received => term)
    /\ [][term => term']_vars
    /\ ((setup = "ok" /\ received) ~> seen)

\* C11 amended: the flag is false from its allocation until one of the three
\* signals arrives with its handler installed (which may be before
\* setup_term_flag returns); from then on it is true and never goes back to
\* false, whatever further signals arrive; a host that polls the returned
\* flag after such a signal eventually reads true.
C11_FlagMonotonic ==
    /\ []((setup # "none" /\ ~received) => ~term)
    /\ [](received => term)
    /\ [][term => term']_vars
    /\ [](seen => term)
    /\ ((setup = "ok" /\ received) ~> seen)

\* C11 witness: the flag was returned, a signal has set it and the polling
\* loop has read true.
C11_Witness == setup = "ok" /\ received /\ term /\ seen

\* C12 as stated: when a registration fails, setup_term_flag returns an error
\* and no handler installed by the call remains.
C12_NoPartialRegistration ==
    /\ setup = "ok" => handlers = TermSignalSet
    /\ setup = "err" => handlers = { }

\* C12 amended: setup_term_flag returns Ok only with all three handlers
\* installed; when a registration fails it returns an error at once, the
\* signals after the failing one are not registered, and the handlers
\* installed before it stay installed.
C12_ErrorKeepsEarlierHandlers ==
    /\ setup = "ok" => handlers = TermSignalSet
    /\ setup = "err"
       => /\ regIdx <= Len(TermSignals)
          /\ handlers = {TermSignals[i] : i \in 1..(regIdx - 1)}
    /\ setup = "running"
       => handlers = {TermSignals[i] : i \in 1..(regIdx - 1)}

\* C12 witness: the registration of SIGQUIT failed; the call returned an
\* error and the handlers of SIGINT and SIGTERM are still installed.
C12_Witness ==
    /\ setup = "err"
    /\ regIdx = 3
    /\ handlers = {"SIGINT", "SIGTERM"}

\* C13: Supervisor::new(kill_timeout) starts with no children, the given
\* kill_timeout and a poll_interval of 100 ms; Supervisor::default() has a
\* kill_timeout of 10 s; add_child changes neither duration, so every
\* shutdown_process call of the teardown is made with the kill_timeout chosen
\* at construction and a poll_interval of 100 ms.
C13_DurationsFixed ==
    /\ children = << >>
    /\ [](built.by = "new" => kill_timeout = built.arg)
    /\ [](built.by = "default" => kill_timeout = 10 * 1000)
    /\ [](poll_interval = 100)
    /\ [][Len(children') > Len(children)
            => UNCHANGED << kill_timeout, poll_interval >>]_vars
    /\ []((phase \in {"drop", "done"} /\ cur \in Registered)
            => (kt = kill_timeout /\ pi = 100))

\* C13 witness: the teardown of a default-built supervisor has polled its
\* child every 100 ms for ten seconds and is about to send SIGKILL.
C13_Witness ==
    /\ built.by = "default"
    /\ phase = "drop"
    /\ children = << 1 >>
    /\ pc = "sigkill"
    /\ kt = 10 * 1000 /\ pi = 100
    /\ elapsed >= 10 * 1000

\* The last OS operation the current call made.
LastCall == Calls[Len(Calls)]

\* The exit was observed by a poll, or SIGKILL was sent and the blocking wait
\* confirmed the end of the process.
ExitObservedOrKillConfirmed ==
    /\ Calls # << >>
    /\ \/ LastCall.op = "try_wait" /\ LastCall.out = "some"
       \/ /\ LastCall.op = "wait" /\ LastCall.out = "some"
          /\ \E i \in Idx : trace[i].op = "SIGKILL" /\ trace[i].out # "err"

\* C14 as stated: whenever shutdown_process returns for a child that was
\* alive at the call, the exit has been observed by a poll or a forced kill
\* has been sent and confirmed by the blocking wait; the child is no longer
\* running.
C14_ReturnsOnlyAfterExit ==
    (Returned /\ ~reapedBefore[cur]) =>
        (proc[cur] = "reaped" /\ ExitObservedOrKillConfirmed)

\* C14, amended: the same for every return of Ok.  A failing kill, poll or
\* wait returns Err at once, with the child possibly still running; until it
\* returns, the call is never abandoned: it leaves its steps only by
\* returning a result.
C14_OkOnlyAfterExit ==
    /\ []((Returned /\ result[cur] # "Err") =>
            (proc[cur] = "reaped" /\ ExitObservedOrKillConfirmed))
    /\ []((cur # 0 /\ pc # "idle") => result[cur] = "none")
    /\ [][(cur # 0 /\ pc # "idle" /\ pc' = "idle")
            => (cur' = cur /\ result'[cur] # "none")]_vars

\* C14 witness: a child that ignored SIGTERM was killed at the timeout and
\* the blocking wait returned its status.
C14_Witness ==
    /\ Returned
    /\ ~reapedBefore[cur]
    /\ result[cur] = "killed"
    /\ proc[cur] = "reaped"
    /\ LastCall.op = "wait"

\* C15: the kill_timeout window starts after the SIGTERM request has been
\* sent, so at least kill_timeout passes between the delivery of SIGTERM and
\* the sending of SIGKILL, however long the SIGTERM request takes.
C15_FullTimeoutAfterSigterm ==
    \A i, j \in Idx :
        ( /\ trace[i].op = "SIGTERM" /\ trace[i].out = "sent"
          /\ trace[j].op = "SIGKILL" )
        => trace[j].at - trace[i].at >= kt

\* How many times shutdown_process was invoked for child c.
Invocations(c) == Cardinality({i \in DOMAIN order : order[i] = c})

\* C16: each registered child is shut down and reaped at most once: the
\* teardown invokes shutdown_process exactly once per registered child, and
\* within one call the exit status is collected by exactly one operation, the
\* poll that observes the exit or the final blocking wait, which is never
\* made after a poll has returned the status.
C16_ShutDownOnce ==
    /\ \A c \in Registered : Invocations(c) <= 1
    /\ (phase = "done" /\ children # << >>) =>
            \A c \in Registered : Invocations(c) = 1
    /\ \A i \in Idx :
            (trace[i].op \in {"try_wait", "wait"} /\ trace[i].out = "some")
            => i = Len(trace)
    /\ (Returned /\ result[cur] # "Err") =>
            (LastCall.op \in {"try_wait", "wait"} /\ LastCall.out = "some")

\* C16 witness: a teardown of two children is over; the first one shut down
\* was killed, the status of the second one was collected by a poll.
C16_Witness ==
    /\ phase = "done"
    /\ children = << 1, 2 >>
    /\ order = << 2, 1 >>
    /\ ~reapedBefore[1] /\ ~reapedBefore[2]
    /\ result[2] = "killed"
    /\ result[1] = "exited"
    /\ LastCall.op = "try_wait"

\* C17: bounded detection latency.  When every sleep lasts exactly
\* poll_interval and no other step takes time, a call whose child exits on
\* its own at time t after SIGTERM returns no later than t + poll_interval.
C17_DetectionLatency ==
    ( /\ Returned
      /\ slack = 0
      /\ trace # << >>
      /\ trace[1].op = "SIGTERM" )
    => \A i \in Idx :
            trace[i].op = "exit" => elapsed <= trace[i].at + pi

\* C17 witness: the child exited right after a poll saw it running, and the
\* call returned its status a full poll_interval later.
C17_Witness ==
    /\ Returned
    /\ slack = 0
    /\ NoErr
    /\ result[cur] = "exited"
    /\ pi > 0
    /\ \E i \in Idx :
        /\ i > 1
        /\ trace[1].op = "SIGTERM"
        /\ trace[i].op = "exit"
        /\ trace[i].at > 0
        /\ elapsed = trace[i].at + pi

\* The child of the current call exited on its own during the call.
ExitedOnItsOwn == \E i \in Idx : trace[i].op = "exit"

\* C18: the status a successful shutdown_process returns is the status the
\* child really terminated with.  A child that exited on its own, observed by
\* a poll or not, is reported with its own exit status; a killed status is
\* returned only when SIGKILL was sent to a child that was still running.
C18_ReturnsRealStatus ==
    (Returned /\ result[cur] # "Err") =>
        /\ result[cur] = status[cur]
        /\ ExitedOnItsOwn => result[cur] = "exited"
        /\ result[cur] = "killed" =>
                /\ ~ExitedOnItsOwn
                /\ \E i \in Idx :
                       trace[i].op = "SIGKILL" /\ trace[i].out = "sent"

\* C18 witness: the child exited on its own unseen by any poll, SIGKILL was
\* sent to the not yet reaped process, and the wait returned the child's own
\* exit status.
C18_Witness ==
    /\ Returned
    /\ result[cur] = "exited"
    /\ ExitedOnItsOwn
    /\ trace[Len(trace)].op = "wait"
    /\ \E i \in Idx : trace[i].op = "SIGKILL" /\ trace[i].out = "sent"

\* C19: when the handle has not been waited for before the call, every
\* SIGTERM and SIGKILL of shutdown_process goes to the managed child and never
\* to another process: at each signal the pid read at the start still belongs
\* to the child, running or exited but not yet reaped.
C19_SignalsReachOwnChild ==
    (cur # 0 /\ ~reapedBefore[cur]) =>
        /\ \A i \in Idx :
                trace[i].op \in {"SIGTERM", "SIGKILL"}
                => trace[i].out \in {"sent", "err"}
        /\ pc \in {"enter", "sigterm", "sigkill"} =>
                (proc[cur] \in {"running", "zombie"} /\ ~reused[cur])

\* C19 witness: both signals were sent to a child that ignored SIGTERM, the
\* second one late, and the call returned after reaping it.
C19_Witness ==
    /\ Returned
    /\ ~reapedBefore[cur]
    /\ proc[cur] = "reaped"
    /\ status[cur] = "killed"
    /\ elapsed > kt
    /\ trace[1].op = "SIGTERM" /\ trace[1].out = "sent"
    /\ \E i \in Idx : trace[i].op = "SIGKILL" /\ trace[i].out = "sent"

====
